---------------------------- MODULE Spec2Model ----------------------------
(***************************************************************************)
(* Model of vinitd's process-event monitor and shutdown sequence          *)
(* (pkg/vorteil/process.go, internal/vorteil/log.go).                      *)
(*                                                                         *)
(* Threads of control:                                                     *)
(*   - the listener goroutine running listenToProcesses, which is the only *)
(*     writer of procs and internal and which calls shutdown from          *)
(*     handleExit (caller "loop");                                         *)
(*   - a goroutine calling SystemPanic, which calls shutdown too           *)
(*     (caller "panic");                                                   *)
(*   - the rest of the daemon, which advances initStatus up to             *)
(*     statusLaunched and starts the programs of the roster.               *)
(* initStatus is a plain variable: the read in shutdown's guard and the    *)
(* write after it are separate steps that other threads interleave with.   *)
(***************************************************************************)
EXTENDS Integers, Sequences, FiniteSets, TLC

(***************************************************************************)
(* Bounds of the model.                                                    *)
(***************************************************************************)
NumPids == 2        \* process ids the kernel reports events for: 1..NumPids
MaxBatch == 2       \* netlink messages returned by one recv
NumProgs == 1       \* programs in the application roster
MaxTriggers == 2    \* shutdown calls counted within one observed sequence

Pids == 1..NumPids
Progs == 1..NumProgs

(***************************************************************************)
(* Program constants.                                                      *)
(***************************************************************************)
\* the values of ProcEventHeader.What the switch knows (0x00000001,
\* 0x00000002, 0x80000000), and the zero What of a header that was not read
procEventFork == "PROC_EVENT_FORK"
procEventExec == "PROC_EVENT_EXEC"
procEventExit == "PROC_EVENT_EXIT"
procEventNone == "PROC_EVENT_NONE"
LINUX_REBOOT_CMD_POWER_OFF == 1126301404

\* The ordered init phases.  Only their order is used by this code.
statusBooting == 0
statusLaunching == 1
statusLaunched == 2
statusPoweroff == 3

(***************************************************************************)
(* Paths are sequences of components: "/vorteil/busybox" is                *)
(* <<"vorteil", "busybox">>, the empty string is << >>.                    *)
(***************************************************************************)
busboxScript == <<"vorteil", "busybox-install.sh">>
busyboxShell == <<"vorteil", "busybox">>
vorteilDir == <<"vorteil">>     \* the prefix "/vorteil/"

Paths == { busboxScript, busyboxShell, <<"vorteil", "app">>, <<"bin", "app">> }

\* strings.HasPrefix(st, dir + "/"): st lies strictly below the directory dir
HasPrefix(st, dir) ==
    /\ Len(st) > Len(dir)
    /\ SubSeq(st, 1, Len(dir)) = dir

\* Mutant: the exception for the embedded shell is forgotten.
IsApplication_NoShell(st) == ~HasPrefix(st, vorteilDir)

\* The test of parseNetlinkMessage that sends a tgid to procs.
IsApplication(st) ==
    ~HasPrefix(st, vorteilDir) \/ st = busyboxShell

(***************************************************************************)
(* State.                                                                  *)
(***************************************************************************)
VARIABLES
    initStatus,   \* the daemon's init phase
    progs,        \* roster: progs[i] is "nil" (cmd == nil), "cmd" (cmd set,
                  \* cmd.Process == nil) or "proc" (cmd.Process set)
    procs,        \* keys of the map procs (every value equals its key)
    internal,     \* the map internal: tgid -> executable path
    lpc,          \* position of the listener goroutine
    pending,      \* messages of the received batch not yet ranged over
    spc,          \* position of each caller inside shutdown
    steps,        \* what each caller's execution of shutdown has done so far
    sent,         \* signals each caller's killAll has sent, in order
    rebootCmd,    \* command each caller passed to syscall.Reboot (0: none)
    halted,       \* syscall.Reboot succeeded: the machine is off
    scen,         \* observer: shape of the event sequence processed so far
    owed,         \* observer: tgids forked in the sequence, exit not yet seen
    appSeen,      \* observer: some fork/exec of the sequence went to procs
    nTrigger      \* observer: shutdown calls made by handleExit

vars == << initStatus, progs, procs, internal, lpc, pending, spc, steps,
           sent, rebootCmd, halted, scen, owed, appSeen, nTrigger >>

regVars == << procs, internal >>
obsVars == << scen, owed, appSeen, nTrigger >>
shutVars == << spc, steps, sent, rebootCmd, halted >>

Callers == { "loop", "panic" }

(***************************************************************************)
(* Decoded netlink messages.  typ is the netlink header type ("DONE" for   *)
(* NLMSG_DONE); what, pid, tgid are the ProcEventHeader fields; for a      *)
(* fork/exec event, exe and err are what os.Readlink("/proc/<tgid>/exe")   *)
(* returns at the time the message is handled.                             *)
(***************************************************************************)
Msg(typ, what, pid, tgid, exe, err) ==
    [ typ |-> typ, what |-> what, pid |-> pid, tgid |-> tgid,
      exe |-> exe, err |-> err ]

ForkExecMsgs ==
    { Msg("DONE", w, t, t, st, FALSE) :
        w \in { procEventFork, procEventExec }, t \in Pids, st \in Paths }
    \cup { Msg("DONE", w, t, t, << >>, TRUE) :
        w \in { procEventFork, procEventExec }, t \in Pids }

ExitMsgs ==
    { Msg("DONE", procEventExit, p, t, << >>, FALSE) : p \in Pids, t \in Pids }

\* binary.Size of CnMsg and of ProcEventHeader
CnMsgSize == 20
ProcEventHeaderSize == 24

\* The two binary.Read calls of parseNetlinkMessage on a payload of len
\* bytes that was sent with the given event fields: binary.Read fills hdr
\* only when all its bytes are there, and its error is dropped, so a short
\* payload leaves hdr zeroed.
readHeader(len, what, pid, tgid) ==
    IF len >= CnMsgSize + ProcEventHeaderSize
    THEN [ what |-> what, pid |-> pid, tgid |-> tgid ]
    ELSE [ what |-> procEventNone, pid |-> 0, tgid |-> 0 ]

\* payload lengths too short for CnMsg plus ProcEventHeader
ShortPayloads == { 0, CnMsgSize, CnMsgSize + ProcEventHeaderSize - 1 }

\* Messages that carry no event: a header type other than NLMSG_DONE, and a
\* NLMSG_DONE message with an exit event cut short.
OtherMsgs ==
    { Msg("OTHER", procEventExit, t, t, << >>, FALSE) : t \in Pids }
    \cup { LET h == readHeader(len, procEventExit, t, t)
           IN  Msg("DONE", h.what, h.pid, h.tgid, << >>, FALSE) :
               len \in ShortPayloads, t \in Pids }

Messages == ForkExecMsgs \cup ExitMsgs \cup OtherMsgs

(***************************************************************************)
(* The registry operations, as functions of the state they read.          *)
(***************************************************************************)
\* what handling one message leaves: the two maps, whether handleExit went
\* on to its checks of the phase and the roster (check), and whether it
\* called shutdown
Result(ps, int, ck, sd) ==
    [ procs |-> ps, internal |-> int, check |-> ck, shutdown |-> sd ]

\* internal[tgid] of a Go map: the empty string when the key is absent
Lookup(int, tgid) == IF tgid \in DOMAIN int THEN int[tgid] ELSE << >>

\* delete(internal, tgid)
Delete(int, tgid) == [ t \in (DOMAIN int) \ { tgid } |-> int[t] ]

\* internal[tgid] = st
Store(int, tgid, st) ==
    [ t \in (DOMAIN int) \cup { tgid } |-> IF t = tgid THEN st ELSE int[t] ]

\* the loop over progs in handleExit: every program has cmd and cmd.Process
AllStarted(pg) == \A i \in DOMAIN pg : pg[i] = "proc"

\* Mutant: the exit of an internal process is removed from procs too.
exitRemove_Both(pid, tgid, ps, int, status) ==
    IF tgid # pid THEN Result(ps, int, FALSE, FALSE)
    ELSE IF Len(Lookup(int, tgid)) > 0
         THEN Result(ps \ { tgid }, Delete(int, tgid), (ps \ { tgid }) = {}, FALSE)
    ELSE IF ps = {} /\ status >= statusLaunched THEN Result(ps, int, FALSE, FALSE)
    ELSE Result(ps \ { tgid }, int, (ps \ { tgid }) = {}, FALSE)

\* Mutant: the return for "apps launched but not registered" is missing.
exitRemove_NoEarly(pid, tgid, ps, int, status) ==
    IF tgid # pid THEN Result(ps, int, FALSE, FALSE)
    ELSE IF Len(Lookup(int, tgid)) > 0
         THEN Result(ps, Delete(int, tgid), FALSE, FALSE)
    ELSE Result(ps \ { tgid }, int, (ps \ { tgid }) = {}, FALSE)

\* Mutant: the test for the thread-group leader is missing.
exitRemove_AnyThread(pid, tgid, ps, int, status) ==
    IF Len(Lookup(int, tgid)) > 0
    THEN Result(ps, Delete(int, tgid), FALSE, FALSE)
    ELSE IF ps = {} /\ status >= statusLaunched THEN Result(ps, int, FALSE, FALSE)
    ELSE Result(ps \ { tgid }, int, (ps \ { tgid }) = {}, FALSE)

\* handleExit up to the removal from procs: its first read of initStatus
exitRemove(pid, tgid, ps, int, status) ==
    IF tgid # pid THEN Result(ps, int, FALSE, FALSE)
    ELSE IF Len(Lookup(int, tgid)) > 0
         THEN Result(ps, Delete(int, tgid), FALSE, FALSE)
    ELSE IF ps = {} /\ status >= statusLaunched THEN Result(ps, int, FALSE, FALSE)
    ELSE Result(ps \ { tgid }, int, (ps \ { tgid }) = {}, FALSE)

\* Mutant: the "still launching" return is missing.
exitDecide_NoPhase(status, pg) == AllStarted(pg)

\* handleExit once procs is empty: its second read of initStatus and its
\* reads of the roster decide whether shutdown is called
exitDecide(status, pg) ==
    IF status < statusLaunched THEN FALSE
    ELSE AllStarted(pg)

\* handleExit when nothing is written to initStatus or progs meanwhile
handleExit(pid, tgid, ps, int, status, pg) ==
    LET r == exitRemove(pid, tgid, ps, int, status)
    IN  Result(r.procs, r.internal, r.check, r.check /\ exitDecide(status, pg))

\* Mutant: the error of os.Readlink is not looked at.
handleForkExec_NoErrCheck(tgid, st, err, ps, int) ==
    IF IsApplication(st) THEN Result(ps \cup { tgid }, int, FALSE, FALSE)
    ELSE Result(ps, Store(int, tgid, st), FALSE, FALSE)

\* the fork/exec case of parseNetlinkMessage
handleForkExec(tgid, st, err, ps, int) ==
    IF err THEN Result(ps, int, FALSE, FALSE)
    ELSE IF IsApplication(st) THEN Result(ps \cup { tgid }, int, FALSE, FALSE)
    ELSE Result(ps, Store(int, tgid, st), FALSE, FALSE)

\* Mutant: the header type of the netlink message is not looked at.
parseNetlinkMessage_AnyType(m, ps, int, status) ==
    IF m.what \in { procEventFork, procEventExec }
    THEN handleForkExec(m.tgid, m.exe, m.err, ps, int)
    ELSE IF m.what = procEventExit
         THEN exitRemove(m.pid, m.tgid, ps, int, status)
    ELSE Result(ps, int, FALSE, FALSE)

\* parseNetlinkMessage up to the point where handleExit reads the phase again
parseNetlinkMessage(m, ps, int, status) ==
    IF m.typ # "DONE" THEN Result(ps, int, FALSE, FALSE)
    ELSE IF m.what \in { procEventFork, procEventExec }
         THEN handleForkExec(m.tgid, m.exe, m.err, ps, int)
    ELSE IF m.what = procEventExit
         THEN exitRemove(m.pid, m.tgid, ps, int, status)
    ELSE Result(ps, int, FALSE, FALSE)

(***************************************************************************)
(* Observer of the event sequence (reads the state, never feeds it).      *)
(* scen is "forks" while every event handled so far was a resolved         *)
(* fork/exec handled with the phase at or past statusLaunched and the      *)
(* roster started, "exits" once leader exits of forked tgids follow, each  *)
(* tgid exiting once, and "off" as soon as the sequence has another shape  *)
(* (or is not observed at all).                                            *)
(***************************************************************************)
Observe(sc, ow, app) == [ scen |-> sc, owed |-> ow, appSeen |-> app ]

ObserveMsg(m, status, pg) ==
    LET off == Observe("off", {}, FALSE)
    IN  IF scen = "off" THEN off
        ELSE IF m.typ # "DONE" \/ m.what = procEventNone
             THEN Observe(scen, owed, appSeen)
        ELSE IF status < statusLaunched \/ ~AllStarted(pg) THEN off
        ELSE IF m.what \in { procEventFork, procEventExec }
             THEN IF scen = "forks" /\ ~m.err
                  THEN Observe("forks", owed \cup { m.tgid },
                               appSeen \/ IsApplication(m.exe))
                  ELSE off
        ELSE IF m.pid = m.tgid /\ m.tgid \in owed
             THEN Observe("exits", owed \ { m.tgid }, appSeen)
        ELSE off

(***************************************************************************)
(* The rest of the daemon: it moves the phase forward up to                *)
(* statusLaunched and starts the programs of the roster, one after the     *)
(* other in roster order (exec.Command sets cmd, cmd.Start sets Process).  *)
(***************************************************************************)
AdvancePhase ==
    /\ ~halted
    /\ initStatus < statusLaunched
    /\ initStatus' = initStatus + 1
    /\ UNCHANGED << progs, regVars, lpc, pending, shutVars, obsVars >>

StartProgram(i) ==
    /\ ~halted
    /\ progs[i] # "proc"
    /\ \A j \in Progs : j < i => progs[j] = "proc"
    /\ progs' = [ progs EXCEPT ![i] = IF progs[i] = "nil" THEN "cmd" ELSE "proc" ]
    /\ UNCHANGED << initStatus, regVars, lpc, pending, shutVars, obsVars >>

(***************************************************************************)
(* listenToProcesses.                                                      *)
(***************************************************************************)
\* where the for loops of listenToProcesses go on after a message
LoopNext(n) == IF n > 0 THEN "range" ELSE "recv"

\* Mutant: the error of a setup call is not looked at.
SetupNext_Ignore(ok, next) == next

\* `if err != nil { logError(...); return }` after each setup call
SetupNext(ok, next) == IF ok THEN next ELSE "return"

\* unix.Socket, unix.Bind and send: each failure returns from the listener
listenSetup(at, next) ==
    /\ ~halted
    /\ lpc = at
    /\ \E ok \in BOOLEAN : lpc' = SetupNext(ok, next)
    /\ UNCHANGED << initStatus, progs, regVars, pending, shutVars, obsVars >>

listenSocket == listenSetup("socket", "bind")
listenBind == listenSetup("bind", "send")
listenSend == listenSetup("send", "recv")

\* unix.NLMSG_HDRLEN, the size of a netlink message header
NLMSG_HDRLEN == 16

\* what unix.Recvfrom may return: a failed call (no sender, no bytes), or
\* a datagram of the kernel (netlink pid 0) or of another netlink peer that
\* is shorter than a netlink header or not
Recvfrom(from, sysErr, nr) == [ from |-> from, sysErr |-> sysErr, nr |-> nr ]
RecvCalls ==
    { Recvfrom("nil", TRUE, 0) }
        \cup { Recvfrom(f, FALSE, nr) :
                  f \in { "kernel", "peer" },
                  nr \in { NLMSG_HDRLEN - 1, NLMSG_HDRLEN } }

\* what syscall.ParseNetlinkMessage may return: 0 stands for its error,
\* n > 0 for n messages (a buffer of at least a header never parses to none)
ParseOutcomes == 0..MaxBatch

RecvResult(err, n) == [ err |-> err, n |-> n ]

\* recv: an error when the sender is not the kernel, when Recvfrom failed,
\* when fewer bytes than a netlink header arrived or when
\* syscall.ParseNetlinkMessage failed; otherwise the parsed messages
recv(call, parsed) ==
    IF call.from # "kernel" THEN RecvResult(TRUE, 0)
    ELSE IF call.sysErr THEN RecvResult(TRUE, 0)
    ELSE IF call.nr < NLMSG_HDRLEN THEN RecvResult(TRUE, 0)
    ELSE IF parsed = 0 THEN RecvResult(TRUE, 0)
    ELSE RecvResult(FALSE, parsed)

\* Mutant: a receive error ends the listener.
AfterRecv_Stop(r) == IF r.err THEN "return" ELSE LoopNext(r.n)

\* where the listener goes on after recv returned: to the warning and the
\* `continue` on an error, otherwise to the loop over nlmessages
AfterRecv(r) == IF r.err THEN "warn" ELSE LoopNext(r.n)

\* nlmessages, err := recv(p, sock)
listenRecv ==
    /\ ~halted
    /\ lpc = "recv"
    /\ \E call \in RecvCalls, parsed \in ParseOutcomes :
         LET r == recv(call, parsed)
         IN  /\ pending' = r.n
             /\ lpc' = AfterRecv(r)
    /\ UNCHANGED << initStatus, progs, regVars, shutVars, obsVars >>

\* the receive error is logged and the loop continues with the next recv
listenWarn ==
    /\ ~halted
    /\ lpc = "warn"
    /\ lpc' = "recv"
    /\ UNCHANGED << initStatus, progs, regVars, pending, shutVars, obsVars >>

\* where the listener is after parseNetlinkMessage handled a message
AfterParse(r, n) == IF r.check THEN "check" ELSE LoopNext(n)

\* one iteration of the loop over nlmessages: the next message of the batch
\* is decoded and parseNetlinkMessage switches on it
listenParse ==
    /\ ~halted
    /\ lpc = "range"
    /\ pending > 0
    /\ nTrigger < MaxTriggers
    /\ pending' = pending - 1
    /\ \E m \in Messages :
         LET r == parseNetlinkMessage(m, procs, internal, initStatus)
             o == ObserveMsg(m, initStatus, progs)
         IN  /\ procs' = r.procs
             /\ internal' = r.internal
             /\ lpc' = AfterParse(r, pending')
             /\ scen' = o.scen
             /\ owed' = o.owed
             /\ appSeen' = o.appSeen
    /\ UNCHANGED << initStatus, progs, shutVars, nTrigger >>

\* handleExit with procs empty: "still launching", "apps still starting", or
\* the call of shutdown, which puts caller "loop" at shutdown's guard
listenCheck ==
    /\ ~halted
    /\ lpc = "check"
    /\ IF exitDecide(initStatus, progs)
       THEN /\ lpc' = "shutdown"
            /\ spc' = [ spc EXCEPT !["loop"] = "guard" ]
            /\ nTrigger' = IF scen = "off" THEN nTrigger ELSE nTrigger + 1
       ELSE /\ lpc' = LoopNext(pending)
            /\ UNCHANGED << spc, nTrigger >>
    /\ UNCHANGED << initStatus, progs, regVars, pending, steps, sent,
                    rebootCmd, halted, scen, owed, appSeen >>

(***************************************************************************)
(* killAll and shutdown.                                                   *)
(***************************************************************************)
Proc(pid, ppid) == [ pid |-> pid, ppid |-> ppid ]

\* process tables ps.Processes() may return
ProcTables ==
    { << Proc(1, 0), Proc(2, 0), Proc(3, 2), Proc(4, 1) >>,
      << Proc(1, 0), Proc(2, 0), Proc(3, 1), Proc(4, 3), Proc(5, 4) >> }

\* Mutant: one of the two tests is enough to be signalled.
KillOne_Either(p) ==
    IF p.pid > 2 \/ p.ppid > 2
    THEN << << p.pid, "SIGINT" >>, << p.pid, "SIGTERM" >> >>
    ELSE << >>

\* the signals killAll sends to one process of the table
KillOne(p) ==
    IF p.pid > 2 /\ p.ppid > 2
    THEN << << p.pid, "SIGINT" >>, << p.pid, "SIGTERM" >> >>
    ELSE << >>

RECURSIVE KillSignals(_)
KillSignals(pl) ==
    IF pl = << >> THEN << >> ELSE KillOne(Head(pl)) \o KillSignals(Tail(pl))

\* killAll: nothing is sent when the processes cannot be listed
killAll(err, pl) == IF err THEN << >> ELSE KillSignals(pl)

\* Mutant: shutdown has no guard.
GuardHit_Never(status) == FALSE

\* the guard at the entry of shutdown
GuardHit(status) == status = statusPoweroff

\* the command each call site passes to shutdown
Cmd(c) == LINUX_REBOOT_CMD_POWER_OFF

\* Mutant: a failed process listing ends shutdown, not only killAll.
AfterKillAll_Return(err) == IF err THEN "idle" ELSE "sleep"

\* Mutant: the grace sleep and the countdown are skipped.
AfterKillAll_NoSleep(err) == "sync"

\* where shutdown goes on after killAll returned
AfterKillAll(err) == "sleep"

\* Mutant: the listener leaves its loop when shutdown returns.
AfterShutdown_Return(n) == "return"

\* where the listener goes on when handleExit's call of shutdown returns
AfterShutdown(n) == LoopNext(n)

\* shutdown returns to its caller
Return(c) ==
    /\ spc' = [ spc EXCEPT ![c] = "idle" ]
    /\ lpc' = IF c = "loop" THEN AfterShutdown(pending) ELSE lpc

Did(c, what) == steps' = [ steps EXCEPT ![c] = steps[c] \o what ]

Goto(c, at) == spc' = [ spc EXCEPT ![c] = at ]

\* SystemPanic: log, then shutdown(LINUX_REBOOT_CMD_POWER_OFF, ...)
SystemPanic ==
    /\ ~halted
    /\ spc["panic"] = "idle"
    /\ Goto("panic", "guard")
    /\ UNCHANGED << initStatus, progs, regVars, lpc, pending,
                    steps, sent, rebootCmd, halted, obsVars >>

\* if initStatus == statusPoweroff { return }
shutdownGuard(c) ==
    /\ ~halted
    /\ spc[c] = "guard"
    /\ IF GuardHit(initStatus)
       THEN Return(c)
       ELSE Goto(c, "set") /\ UNCHANGED lpc
    /\ UNCHANGED << initStatus, progs, regVars, pending,
                    steps, sent, rebootCmd, halted, obsVars >>

\* initStatus = statusPoweroff
shutdownSet(c) ==
    /\ ~halted
    /\ spc[c] = "set"
    /\ initStatus' = statusPoweroff
    /\ Did(c, << "poweroff" >>)
    /\ Goto(c, "killAll")
    /\ UNCHANGED << progs, regVars, lpc, pending,
                    sent, rebootCmd, halted, obsVars >>

shutdownKillAll(c) ==
    /\ ~halted
    /\ spc[c] = "killAll"
    /\ \E err \in BOOLEAN, pl \in ProcTables :
         /\ sent' = [ sent EXCEPT ![c] = sent[c] \o killAll(err, pl) ]
         /\ Goto(c, AfterKillAll(err))
    /\ Did(c, << "killAll" >>)
    /\ UNCHANGED << initStatus, progs, regVars, lpc, pending,
                    rebootCmd, halted, obsVars >>

\* the grace sleep and the countdown
shutdownSleep(c) ==
    /\ ~halted
    /\ spc[c] = "sleep"
    /\ Did(c, << "sleep", "3", "2", "1" >>)
    /\ Goto(c, "sync")
    /\ UNCHANGED << initStatus, progs, regVars, lpc, pending,
                    sent, rebootCmd, halted, obsVars >>

\* the two writes to /proc/sysrq-trigger; their errors are dropped
shutdownSync(c) ==
    /\ ~halted
    /\ spc[c] = "sync"
    /\ Did(c, << "sysrq-s", "sysrq-u" >>)
    /\ Goto(c, "flush")
    /\ UNCHANGED << initStatus, progs, regVars, lpc, pending,
                    sent, rebootCmd, halted, obsVars >>

\* bootDisk, and flushDisk unless bootDisk failed
shutdownFlush(c) ==
    /\ ~halted
    /\ spc[c] = "flush"
    /\ \E err \in BOOLEAN :
         Did(c, IF err THEN << "bootDisk" >> ELSE << "bootDisk", "flushDisk" >>)
    /\ Goto(c, "reboot")
    /\ UNCHANGED << initStatus, progs, regVars, lpc, pending,
                    sent, rebootCmd, halted, obsVars >>

\* syscall.Reboot(cmd): on success the machine is off, on failure the call
\* returns and shutdown returns to its caller
shutdownReboot(c) ==
    /\ ~halted
    /\ spc[c] = "reboot"
    /\ rebootCmd' = [ rebootCmd EXCEPT ![c] = Cmd(c) ]
    /\ Did(c, << "reboot" >>)
    /\ \E ok \in BOOLEAN :
         IF ok
         THEN halted' = TRUE /\ Goto(c, "off") /\ UNCHANGED lpc
         ELSE halted' = FALSE /\ Return(c)
    /\ UNCHANGED << initStatus, progs, regVars, pending, sent, obsVars >>

shutdown(c) ==
    \/ shutdownGuard(c)
    \/ shutdownSet(c)
    \/ shutdownKillAll(c)
    \/ shutdownSleep(c)
    \/ shutdownSync(c)
    \/ shutdownFlush(c)
    \/ shutdownReboot(c)

(***************************************************************************)
(* Specifications.                                                         *)
(***************************************************************************)
InitState(sc) ==
    /\ initStatus = statusBooting
    /\ progs = [ i \in Progs |-> "nil" ]
    /\ procs = {}
    /\ internal = << >>
    /\ lpc = "socket"
    /\ pending = 0
    /\ spc = [ c \in Callers |-> "idle" ]
    /\ steps = [ c \in Callers |-> << >> ]
    /\ sent = [ c \in Callers |-> << >> ]
    /\ rebootCmd = [ c \in Callers |-> 0 ]
    /\ halted = FALSE
    /\ scen = sc
    /\ owed = {}
    /\ appSeen = FALSE
    /\ nTrigger = 0

Init == InitState("off")

Next ==
    \/ AdvancePhase
    \/ \E i \in Progs : StartProgram(i)
    \/ listenSocket
    \/ listenBind
    \/ listenSend
    \/ listenRecv
    \/ listenWarn
    \/ listenParse
    \/ listenCheck
    \/ SystemPanic
    \/ \E c \in Callers : shutdown(c)

Spec == Init /\ [][Next]_vars

\* a goroutine inside shutdown is scheduled until the call ends
FairSpec == Spec /\ \A c \in Callers : WF_vars(shutdown(c))

\* the same system with the observer of the event sequence switched on
InitScenario == InitState("forks")

ScenarioSpec == InitScenario /\ [][Next]_vars

(***************************************************************************)
(* Properties.                                                             *)
(***************************************************************************)
\* positions of a caller that has passed shutdown's guard
Body == { "set", "killAll", "sleep", "sync", "flush", "reboot" }

\* callers whose call of shutdown went past the guard / reached syscall.Reboot
Ran == { c \in Callers : steps[c] # << >> }
Rebooted == { c \in Callers : rebootCmd[c] # 0 }

\* the listener enters shutdown in this step
Triggers == lpc # "shutdown" /\ lpc' = "shutdown"

\* handleExit applied to a leader exit of tgid t in the current state
LeaderExit(t) == handleExit(t, t, procs, internal, initStatus, progs)

\* C1: when shutdown is called by the event loop and by SystemPanic
\* concurrently, syscall.Reboot is called once and only one caller performs
\* the steps after the guard.
C1_ExactlyOnce ==
    /\ Cardinality(Rebooted) <= 1
    /\ Cardinality(Ran) <= 1

\* C2: once a call of shutdown is past the guard, syscall.Reboot is
\* eventually called with the command given to that call, whatever sub-steps
\* fail.
C2_RebootReached ==
    \A c \in Callers :
        (spc[c] \in Body) ~> (\E d \in Callers : rebootCmd[d] = Cmd(c))

\* C2 witness: a call reached syscall.Reboot although the process listing and
\* bootDisk failed.
C2_Witness ==
    \E c \in Callers :
        /\ rebootCmd[c] = Cmd(c)
        /\ sent[c] = << >>
        /\ steps[c] = << "poweroff", "killAll", "sleep", "3", "2", "1",
                         "sysrq-s", "sysrq-u", "bootDisk", "reboot" >>

\* C3: fork/exec events followed by the matching leader exits, all handled
\* at or past statusLaunched with the roster started, leave procs empty and
\* make handleExit call shutdown exactly once, never more than once.
C3_ExactlyOneTrigger ==
    /\ scen # "off" => nTrigger <= 1
    /\ (scen = "exits" /\ owed = {} /\ appSeen /\ lpc # "check")
          => (procs = {} /\ nTrigger = 1)

\* C4: an exit event handled while the phase is below statusLaunched never
\* makes handleExit call shutdown, whatever procs and internal hold.
C4_NoTriggerBeforeLaunched ==
    /\ [](initStatus < statusLaunched =>
            \A m \in ExitMsgs :
                ~handleExit(m.pid, m.tgid, procs, internal,
                            initStatus, progs).shutdown)
    /\ [][initStatus < statusLaunched => ~Triggers]_vars

\* C4 witness: handleExit has emptied procs below statusLaunched, with the
\* whole roster started, and is about to decide.
C4_Witness ==
    /\ lpc = "check"
    /\ procs = {}
    /\ initStatus < statusLaunched
    /\ AllStarted(progs)

\* C5: a leader exit of a tgid recorded in internal removes it from
\* internal, leaves procs as it is and calls no shutdown, in every phase
\* and also when procs is empty.
C5_InternalExit ==
    /\ [](\A t \in DOMAIN internal :
            /\ LeaderExit(t).internal = Delete(internal, t)
            /\ LeaderExit(t).procs = procs
            /\ ~LeaderExit(t).check
            /\ ~LeaderExit(t).shutdown)
    /\ [][\A t \in DOMAIN internal :
            t \notin DOMAIN internal' =>
                procs' = procs /\ lpc' \notin { "check", "shutdown" }]_vars

\* C5 witness: an internal process is recorded while procs is empty, the
\* phase is past statusLaunched, the roster is started and the listener is
\* about to handle a message.
C5_Witness ==
    /\ DOMAIN internal # {}
    /\ procs = {}
    /\ initStatus >= statusLaunched
    /\ AllStarted(progs)
    /\ lpc = "range"

\* the classification of each path of the model that the code makes
InternalPaths == { busboxScript, << "vorteil", "app" >> }
ApplicationPaths == { busyboxShell, << "bin", "app" >> }

\* C6 (as stated): only the bootstrap script and the embedded shell are
\* classified Internal; any other path under /vorteil/ is an Application
\* and is never recorded in internal.
C6_AsStated ==
    \A t \in DOMAIN internal : internal[t] \in { busboxScript, busyboxShell }

\* C6 (amended): a fork/exec whose executable lies under /vorteil/ and is not
\* exactly /vorteil/busybox is recorded in internal and not added to procs;
\* /vorteil/busybox and every path outside /vorteil/ is added to procs and
\* not recorded in internal.
C6_Classification ==
    /\ \A t \in DOMAIN internal : internal[t] \in InternalPaths
    /\ \A t \in Pids, st \in Paths :
         LET r == handleForkExec(t, st, FALSE, procs, internal)
         IN  IF st \in InternalPaths
             THEN r.internal = Store(internal, t, st) /\ r.procs = procs
             ELSE r.procs = procs \cup { t } /\ r.internal = internal

\* C6 witness: fork/exec events have put one tgid into procs and recorded
\* another, running /vorteil/app, in internal.
C6_Witness ==
    /\ procs = { 1 }
    /\ DOMAIN internal = { 2 }
    /\ internal[2] = << "vorteil", "app" >>

\* C7: no tgid is in procs and in internal at once.
C7_Disjoint == procs \cap DOMAIN internal = {}

\* C8 (as stated): at or past statusLaunched, a leader exit of a tgid not in
\* internal removes it from procs and calls shutdown exactly when procs is
\* empty after the removal and the whole roster is started, also when procs
\* was empty before.
C8_AsStated ==
    initStatus >= statusLaunched =>
        \A t \in Pids \ DOMAIN internal :
            /\ LeaderExit(t).procs = procs \ { t }
            /\ LeaderExit(t).shutdown
                  <=> ((procs \ { t }) = {} /\ AllStarted(progs))

\* C8 (amended): ... calls shutdown exactly when procs was not empty before
\* the event, is empty after the removal and the whole roster is started;
\* with procs empty before the event nothing is called.
C8_TriggerRule ==
    /\ [](initStatus >= statusLaunched =>
            \A t \in Pids \ DOMAIN internal :
                /\ LeaderExit(t).procs = procs \ { t }
                /\ LeaderExit(t).internal = internal
                /\ LeaderExit(t).shutdown
                      <=> (procs # {} /\ (procs \ { t }) = {} /\ AllStarted(progs)))
    /\ [][Triggers =>
            /\ lpc = "check"
            /\ procs = {}
            /\ initStatus >= statusLaunched
            /\ AllStarted(progs)]_vars
    /\ [][(lpc = "range" /\ procs = {} /\ initStatus >= statusLaunched)
            => lpc' # "check"]_vars

\* C8 witness: the exit of the last tracked process has made handleExit
\* call shutdown.
C8_Witness ==
    /\ lpc = "shutdown"
    /\ spc["loop"] = "guard"
    /\ procs = {}
    /\ DOMAIN internal # {}

\* C9: a call of shutdown that finds the phase at statusPoweroff returns at
\* once: no signal, no sysrq write, no flush, no reboot, and the phase and
\* the two maps stay as they are.
C9_GuardedReturn ==
    [][\A c \in Callers :
        (spc[c] = "guard" /\ initStatus = statusPoweroff /\ spc'[c] # "guard")
            => /\ spc'[c] = "idle"
               /\ steps' = steps
               /\ sent' = sent
               /\ rebootCmd' = rebootCmd
               /\ halted' = halted
               /\ initStatus' = initStatus
               /\ procs' = procs
               /\ internal' = internal]_vars

\* C9 witness: a caller that never ran shutdown's body is at the guard with
\* the phase already at statusPoweroff, the other caller's call being over.
C9_Witness ==
    \E c \in Callers :
        /\ spc[c] = "guard"
        /\ steps[c] = << >>
        /\ initStatus = statusPoweroff
        /\ \A d \in Callers \ { c } : spc[d] = "idle" /\ rebootCmd[d] # 0

\* C10 (as stated): once handleExit has called shutdown the listener only
\* leaves that call by returning from its receive loop.
C10_AsStated ==
    [][lpc = "shutdown" => lpc' \in { "shutdown", "return" }]_vars

\* C10 (amended): while handleExit's call of shutdown runs, no message is
\* received or handled; when the call returns (guard hit, or syscall.Reboot
\* failing) the listener stays in its loop and goes on with the rest of the
\* batch or the next recv.
C10_ResumesLoop ==
    [][lpc = "shutdown" =>
        /\ procs' = procs
        /\ internal' = internal
        /\ pending' = pending
        /\ \/ lpc' = "shutdown"
           \/ /\ spc["loop"] \in { "guard", "reboot" }
              /\ spc'["loop"] = "idle"
              /\ lpc' = LoopNext(pending)]_vars

\* C10 witness: handleExit's call of shutdown ran to the failing
\* syscall.Reboot and the listener is ranging over the rest of the batch.
C10_Witness ==
    /\ lpc = "range"
    /\ rebootCmd["loop"] # 0
    /\ ~halted

\* C11: an exit event whose pid differs from its tgid leaves procs and
\* internal as they are and calls no shutdown (handleExit writes the phase
\* nowhere), in every state.
C11_ThreadExitIgnored ==
    \A m \in ExitMsgs :
        m.pid # m.tgid =>
            handleExit(m.pid, m.tgid, procs, internal, initStatus, progs)
                = Result(procs, internal, FALSE, FALSE)

\* C11 witness: the listener is about to handle a message while the only
\* tracked tgid is 1 and the internal tgid is 2, the phase is past
\* statusLaunched and the roster is started: the exit of a thread of either
\* would matter if it were taken for the leader's.
C11_Witness ==
    /\ lpc = "range"
    /\ procs = { 1 }
    /\ DOMAIN internal = { 2 }
    /\ initStatus >= statusLaunched
    /\ AllStarted(progs)

\* C12: after the leader exit of a tgid has been handled, that tgid is no
\* longer in procs, in any phase and whatever events came before.
C12_ExitRemoves ==
    \A t \in Pids : t \notin LeaderExit(t).procs

\* the writes `initStatus = statusPoweroff` done so far by the calls of c
PhaseWrites(c) == { i \in DOMAIN steps[c] : steps[c][i] = "poweroff" }

\* C13: the phase never decreases and stays statusPoweroff once there; no
\* step of the listener writes it; and over a whole run the write
\* `initStatus = statusPoweroff` is executed a single time, under every
\* interleaving of the shutdown callers.
C13_PhaseWrittenOnce ==
    /\ [][initStatus' >= initStatus]_vars
    /\ [][lpc' # lpc \/ regVars' # regVars => initStatus' = initStatus]_vars
    /\ [](Cardinality(PhaseWrites("loop")) + Cardinality(PhaseWrites("panic")) <= 1)

\* the steps of one execution of shutdown, in the order of its code, with
\* and without flushDisk
ShutdownOrder ==
    << "poweroff", "killAll", "sleep", "3", "2", "1",
       "sysrq-s", "sysrq-u", "bootDisk", "flushDisk", "reboot" >>
ShutdownOrderNoFlush ==
    << "poweroff", "killAll", "sleep", "3", "2", "1",
       "sysrq-s", "sysrq-u", "bootDisk", "reboot" >>

IsPrefix(a, b) == Len(a) <= Len(b) /\ SubSeq(b, 1, Len(a)) = a

\* C14: what a caller has done inside shutdown is always a prefix of
\* poweroff, killAll, sleep, 3, 2, 1, sysrq s, sysrq u, bootDisk,
\* [flushDisk,] reboot (so each step happens at most once and in that order);
\* syscall.Reboot has been called only at the end of that sequence; and
\* signals are sent by the killAll step alone, hence never after the sync.
C14_StepOrder ==
    /\ [](\A c \in Callers :
            /\ IsPrefix(steps[c], ShutdownOrder)
                  \/ IsPrefix(steps[c], ShutdownOrderNoFlush)
            /\ rebootCmd[c] # 0 =>
                  steps[c] \in { ShutdownOrder, ShutdownOrderNoFlush })
    /\ [][\A c \in Callers :
             sent'[c] # sent[c] =>
                 /\ steps[c] = << "poweroff" >>
                 /\ steps'[c] = << "poweroff", "killAll" >>]_vars

\* C14 witness: a caller went through the whole of shutdown, with signals
\* sent, the disk flushed and syscall.Reboot called.
C14_Witness ==
    \E c \in Callers :
        /\ steps[c] = ShutdownOrder
        /\ sent[c] # << >>
        /\ rebootCmd[c] # 0

\* the processes of a table whose pid and parent pid are both above 2, and
\* SIGINT then SIGTERM for each of them in turn
Eligible(pl) == SelectSeq(pl, LAMBDA p : p.pid > 2 /\ p.ppid > 2)
SignalsFor(sel) ==
    [ i \in 1..(2 * Len(sel)) |->
        << sel[(i + 1) \div 2].pid, IF i % 2 = 1 THEN "SIGINT" ELSE "SIGTERM" >> ]

\* C15: killAll sends SIGINT then SIGTERM to exactly the listed processes
\* with pid > 2 and ppid > 2 and nothing when the listing fails; what a
\* caller of shutdown has sent is always nothing or that sequence for one
\* process table, and never goes to pid 1 or pid 2.
C15_KillAllTargets ==
    /\ \A pl \in ProcTables :
          /\ killAll(FALSE, pl) = SignalsFor(Eligible(pl))
          /\ killAll(TRUE, pl) = << >>
    /\ \A c \in Callers :
          /\ sent[c] \in { << >> } \cup { SignalsFor(Eligible(pl)) : pl \in ProcTables }
          /\ \A i \in DOMAIN sent[c] : sent[c][i][1] > 2

\* C15 witness: a caller ran killAll over the table with pids 1..5, where
\* pid 3 is a child of pid 1: pids 4 and 5 alone got SIGINT then SIGTERM.
C15_Witness ==
    \E c \in Callers :
        /\ "killAll" \in { steps[c][i] : i \in DOMAIN steps[c] }
        /\ sent[c] = << << 4, "SIGINT" >>, << 4, "SIGTERM" >>,
                        << 5, "SIGINT" >>, << 5, "SIGTERM" >> >>

\* a recv that returns messages, which the listener then ranges over
RecvDelivers == listenRecv /\ lpc' = "range"

\* C16: every error of recv leaves no message and takes the listener to the
\* warning and from there back to recv; the steps from recv and from the
\* warning leave procs and internal as they are and never leave the loop;
\* and at recv a later receive can still deliver messages, each of which is
\* then handed to parseNetlinkMessage.
C16_RecvErrorContinues ==
    /\ [](\A call \in RecvCalls, parsed \in ParseOutcomes :
            LET r == recv(call, parsed)
            IN  r.err => r.n = 0 /\ AfterRecv(r) = "warn")
    /\ [][lpc = "recv" =>
             lpc' \in { "recv", "warn", "range" } /\ regVars' = regVars]_vars
    /\ [][lpc = "warn" =>
             lpc' \in { "warn", "recv" } /\ regVars' = regVars /\ pending' = 0]_vars
    /\ [](~halted =>
            /\ lpc = "warn" => ENABLED listenWarn
            /\ lpc = "recv" => ENABLED RecvDelivers
            /\ lpc = "range" /\ nTrigger < MaxTriggers => ENABLED listenParse)

\* C16 witness: recv has just failed while tgids are registered in procs
\* and in internal and the machine is still up.
C16_Witness ==
    /\ lpc = "warn"
    /\ procs # {}
    /\ DOMAIN internal # {}
    /\ ~halted

\* the positions of the listener before its loop
SetupAt == { "socket", "bind", "send" }

\* a setup call fails and listenToProcesses returns
SetupFails == (listenSocket \/ listenBind \/ listenSend) /\ lpc' = "return"

\* C17: a failure of unix.Socket, unix.Bind or send takes the listener
\* straight to its return; that step changes neither the phase, the registry
\* nor any caller's position in shutdown; a returned listener stays
\* returned, with procs and internal empty for ever, no message pending and
\* no call of shutdown made by the loop.
C17_SetupFailureReturns ==
    /\ [](\A next \in { "bind", "send", "recv" } : SetupNext(FALSE, next) = "return")
    /\ [](lpc \in SetupAt /\ ~halted => ENABLED SetupFails)
    /\ [][lpc # "return" /\ lpc' = "return" =>
             /\ lpc \in SetupAt
             /\ UNCHANGED << initStatus, regVars, pending, shutVars >>]_vars
    /\ [][lpc = "return" => lpc' = "return"]_vars
    /\ [](lpc = "return" =>
            /\ procs = {} /\ internal = << >> /\ pending = 0
            /\ spc["loop"] = "idle" /\ steps["loop"] = << >>)

\* C17 witness: the listener has returned and the daemon went on to launch
\* and start its whole roster.
C17_Witness ==
    /\ lpc = "return"
    /\ initStatus = statusLaunched
    /\ AllStarted(progs)
    /\ ~halted

\* C18: in every state, handling a fork or exec message whose os.Readlink
\* fails leaves procs and internal as they are, does not take the listener
\* to handleExit's checks and calls no shutdown (the fork/exec case reads and
\* writes no phase).
C18_UnresolvedIgnored ==
    \A m \in ForkExecMsgs :
        m.err =>
            LET r == parseNetlinkMessage(m, procs, internal, initStatus)
            IN  /\ r = Result(procs, internal, FALSE, FALSE)
                /\ \A n \in 0..MaxBatch :
                      AfterParse(r, n) \notin { "check", "shutdown" }

\* C18 witness: the listener is about to handle a message with nothing
\* registered, the phase statusLaunched and the roster started, where a tgid
\* registered by mistake would arm a shutdown.
C18_Witness ==
    /\ lpc = "range"
    /\ procs = {}
    /\ internal = << >>
    /\ initStatus = statusLaunched
    /\ AllStarted(progs)
    /\ spc = [ c \in Callers |-> "idle" ]

\* the registry after the resolved fork/exec message m is handled in (ps, int)
AfterForkExec(m, ps, int) == handleForkExec(m.tgid, m.exe, m.err, ps, int)

\* C19: in every state, a fork or exec message for a tgid that is in procs
\* or in internal leaves both maps as they are, whatever path it resolves
\* to; and handling any fork or exec message twice leaves what handling it
\* once leaves.
C19_RepeatNoOp ==
    \A m \in ForkExecMsgs :
        LET once == AfterForkExec(m, procs, internal)
        IN  /\ m.tgid \in procs \cup DOMAIN internal =>
                  once.procs = procs /\ once.internal = internal
            /\ AfterForkExec(m, once.procs, once.internal) = once

\* C20: a receive of fewer bytes than a netlink header is an error of recv,
\* which delivers nothing and leads back to recv; and in every state a
\* message whose type is not NLMSG_DONE, and a NLMSG_DONE message whose
\* payload is too short for CnMsg plus ProcEventHeader, leave procs and
\* internal as they are, call no shutdown and let the loop go on with the
\* next message or the next recv.
C20_MalformedIgnored ==
    /\ \A call \in RecvCalls, parsed \in ParseOutcomes :
          call.nr < NLMSG_HDRLEN =>
              /\ recv(call, parsed) = RecvResult(TRUE, 0)
              /\ AfterRecv(recv(call, parsed)) = "warn"
    /\ \A len \in ShortPayloads, t \in Pids :
          readHeader(len, procEventExit, t, t).what = procEventNone
    /\ \E m \in OtherMsgs : m.typ # "DONE" /\ m.what = procEventExit
    /\ \E m \in OtherMsgs : m.typ = "DONE"
    /\ \A m \in OtherMsgs :
          LET r == parseNetlinkMessage(m, procs, internal, initStatus)
          IN  /\ r = Result(procs, internal, FALSE, FALSE)
              /\ \A n \in 0..MaxBatch : AfterParse(r, n) = LoopNext(n)

\* C20 witness: the listener is about to handle a message while tgid 1 is
\* the only registered process, the phase is statusLaunched and the roster
\* is started: an exit of tgid 1 read out of a malformed message would call
\* shutdown.
C20_Witness ==
    /\ lpc = "range"
    /\ procs = { 1 }
    /\ internal = << >>
    /\ initStatus = statusLaunched
    /\ AllStarted(progs)
    /\ spc = [ c \in Callers |-> "idle" ]

=============================================================================
